---- MODULE Spec2Model ----
(***************************************************************************)
(* The editor state machine of helix-view/src/editor.rs: the document      *)
(* registry and its id allocator, the view tree, the action router         *)
(* (switch: Load / Replace / HorizontalSplit / VerticalSplit), the close   *)
(* cascade (close, close_document) and the language-server lifecycle sync. *)
(*                                                                         *)
(* The view tree (tree.rs), View (view.rs) and Document (document.rs) are   *)
(* collaborators whose code is outside editor.rs; only the part of their   *)
(* contract the editor relies on is modelled: a tree is a set of views and *)
(* a focus, a document is the record of the fields the editor reads.       *)
(***************************************************************************)
EXTENDS Integers, Sequences, FiniteSets, TLC

\* ---------------------------------------------------------------- bounds
\* The objects an editor has minted are its document ids, its view keys, the
\* jump-list entries of its views and its notification tasks in flight. A call
\* is not taken when it would leave more of them than the cap of the
\* specification: MaxMinted for Spec, MaxMintedDeep for SpecDeep (the same
\* machine, one object deeper), MaxMintedLsp for SpecLsp.
MaxMinted == 4
MaxMintedDeep == 5
MaxMintedLsp == 5
\* SpecIdle and SpecShutdown let the clock advance MaxTicks times
MaxTicks == 12
\* the cap on the minted objects of SpecScroll
MaxMintedScroll == 4
\* the cap on the minted objects of SpecUnforced
MaxMintedUnforced == 4
\* the cap on the minted objects of SpecShutdown
MaxMintedShutdown == 4

\* ------------------------------------------------------------- value sets
Paths == {"/tmp/a.txt"}
\* Option<PathBuf>::None
NoPath == ""
Languages == {"source.rust", "source.toml"}
\* Option<Arc<LanguageConfiguration>>::None
NoLanguage == ""
\* the cursor positions (char offsets) an edit leaves a selection at;
\* Selection::point(0) is 0
Positions == {1}
Actions == {"Load", "Replace", "HorizontalSplit", "VerticalSplit"}
Splits == {"HorizontalSplit", "VerticalSplit"}

\* Option<DocumentId>::None (DocumentId is a NonZeroUsize)
NoDoc == 0
\* no view: the focus of a tree without views
NoView == 0
\* Option<Arc<Client>>::None
NoServer == 0
\* DocumentId::default()
DocumentIdDefault == 1
\* the rows of a view's inner area
ViewHeight == 2
\* a cursor position below the rows a view shows from offset 0
ScrollPositions == {ViewHeight}
\* Config::default(): idle_timeout: Duration::from_millis(400)
IdleTimeoutMillis == 400
\* clear_idle_timer: Duration::from_secs(86400 * 365 * 30), 30 years
FarFutureSecs == 86400 * 365 * 30
\* the clock is read in steps of TickMillis milliseconds
TickMillis == 100
\* close_language_servers: timeout.unwrap_or(500)
DefaultTimeoutMillis == 500
\* Option<u64>::None, the timeout argument left out
NoTimeout == -1
\* the timeouts a caller passes to close_language_servers, in milliseconds
Timeouts == {NoTimeout, 0, 200}

VARIABLES
    tree,              \* Editor.tree: [views, focus, next_key]
    next_document_id,  \* Editor.next_document_id
    documents,         \* Editor.documents: DocumentId -> Document
    syn_loader,        \* Editor.syn_loader: the languages the loader can detect
    language_servers,  \* Editor.language_servers: language -> id of its client
    spawned,           \* the notification tasks handed to tokio::spawn, in order
    panicked,          \* the thread has panicked (unwrap / index / unreachable!)
    last,              \* the last operation called, its arguments and its result
    now,               \* Instant::now(), in milliseconds since Editor::new
    idle_timer,        \* Editor.idle_timer: the deadline of the Sleep, an instant
    idle_calls,        \* the calls made on the idle timer and when, latest first
    shutdown           \* the call of close_language_servers, once made

vars == <<tree, next_document_id, documents, syn_loader, language_servers, spawned, panicked, last,
          now, idle_timer, idle_calls, shutdown>>

\* ------------------------------------------------------------ map helpers
EmptyMap == [x \in {} |-> 0]
Put(f, k, v) == [x \in (DOMAIN f) \cup {k} |-> IF x = k THEN v ELSE f[x]]
Remove(f, k) == [x \in (DOMAIN f) \ {k} |-> f[x]]
Min(S) == CHOOSE x \in S : \A y \in S : x <= y
SatSub(a, b) == IF a >= b THEN a - b ELSE 0

\* ------------------------------------------------------------------- time
\* std::time::Duration and tokio::time::Instant: whole seconds and the
\* milliseconds below one second
DurationFromMillis(millis) == [secs |-> millis \div 1000, millis |-> millis % 1000]
DurationFromSecs(secs) == [secs |-> secs, millis |-> 0]
\* Instant::now() when the clock reads t
InstantNow(t) == DurationFromMillis(t)
\* Instant + Duration
InstantAdd(instant, duration) ==
    [secs |-> instant.secs + duration.secs + ((instant.millis + duration.millis) \div 1000),
     millis |-> (instant.millis + duration.millis) % 1000]
\* Instant <= Instant
InstantLeq(a, b) == a.secs < b.secs \/ (a.secs = b.secs /\ a.millis <= b.millis)
\* Editor.config.idle_timeout, as Config::default() sets it
idle_timeout == DurationFromMillis(IdleTimeoutMillis)

\* ------------------------------------------------------------ collaborators
\* Document::default(): a pathless, unmodified scratch document
DocumentDefault ==
    [id |-> DocumentIdDefault, path |-> NoPath, modified |-> FALSE,
     selections |-> EmptyMap, language |-> NoLanguage, language_server |-> NoServer]

\* Document::open(path, ...): a document read from path, its language detected
DocumentOpen(path, language) ==
    [DocumentDefault EXCEPT !.path = path, !.language = language]

\* View::new(doc)
ViewNew(doc) ==
    [id |-> NoView, doc |-> doc, offset |-> 0, jumps |-> <<>>, last_accessed_doc |-> NoDoc]

\* Tree::new(area): no view, nothing focused
TreeNew == [views |-> EmptyMap, focus |-> NoView, next_key |-> 1]

\* Tree::split(view, layout) and Tree::insert(view): the view gets a fresh key,
\* joins the tree and becomes the focus
TreeInsert(t, view) ==
    [views |-> Put(t.views, t.next_key, [view EXCEPT !.id = t.next_key]),
     focus |-> t.next_key,
     next_key |-> t.next_key + 1]

\* Tree::remove(id): the trees that may result. The view leaves the tree; when it
\* was the focus, the focus moves to one of the remaining views (which one is the
\* tree's business), and to nothing when none remains.
TreeRemove(t, id) ==
    LET rest == Remove(t.views, id) IN
    IF t.focus # id THEN {[t EXCEPT !.views = rest]}
    ELSE IF DOMAIN rest = {} THEN {[t EXCEPT !.views = rest, !.focus = NoView]}
    ELSE {[t EXCEPT !.views = rest, !.focus = f] : f \in DOMAIN rest}

\* Rope::char_to_line(pos): the text has one char per line
CharToLine(pos) == pos

\* View::ensure_cursor_in_view(doc, scrolloff): scroll so that the line of the
\* view's cursor is one of the ViewHeight rows shown from offset
EnsureCursorInView(view, doc) ==
    LET line == CharToLine(doc.selections[view.id]) IN
    [view EXCEPT !.offset = IF line < @ THEN line
                            ELSE IF line >= @ + ViewHeight THEN (line - ViewHeight) + 1
                            ELSE @]

\* ------------------------------------------------------------- the editor
\* The editor as one value, so that the methods compose as they do in the code
self ==
    [tree |-> tree, next_document_id |-> next_document_id, documents |-> documents,
     syn_loader |-> syn_loader, language_servers |-> language_servers,
     spawned |-> spawned, panicked |-> FALSE]

Panic(e) == [e EXCEPT !.panicked = TRUE]

\* as if Editor::new registered a first scratch document
EditorNewDocumentsWithScratch == (DocumentIdDefault :> DocumentDefault)

\* documents: BTreeMap::new() of Editor::new
EditorNewDocuments == EmptyMap

\* Editor::new(area, theme_loader, syn_loader, config)
EditorNew(loader) ==
    [tree |-> TreeNew, next_document_id |-> DocumentIdDefault,
     documents |-> EditorNewDocuments, syn_loader |-> loader,
     language_servers |-> EmptyMap, spawned |-> <<>>, panicked |-> FALSE]

\* idle_timer: Box::pin(sleep(config.idle_timeout)) of Editor::new at instant t
EditorNewIdleTimer(t) == InstantAdd(InstantNow(t), idle_timeout)

\* a clear_idle_timer that re-arms the timer as reset_idle_timer does
clear_idle_timer_as_reset(t) == InstantAdd(InstantNow(t), idle_timeout)

\* Editor::clear_idle_timer at instant t: the deadline the Sleep is reset to
clear_idle_timer(t) == InstantAdd(InstantNow(t), DurationFromSecs(FarFutureSecs))

\* Editor::reset_idle_timer at instant t: the deadline the Sleep is reset to
reset_idle_timer(t) == InstantAdd(InstantNow(t), idle_timeout)

\* the Sleep of the idle timer is ready at instant t: what the event loop polls
IdleTimerElapsed(timer, t) == InstantLeq(timer, InstantNow(t))

\* a _refresh that looks at the focused view only
_refresh_focused_only(e) ==
    IF e.panicked THEN e
    ELSE IF \E v \in DOMAIN e.tree.views :
               \/ e.tree.views[v].doc \notin DOMAIN e.documents
               \/ v \notin DOMAIN e.documents[e.tree.views[v].doc].selections
         THEN Panic(e)
         ELSE [e EXCEPT !.tree.views =
                  [v \in DOMAIN @ |-> IF v = e.tree.focus
                                      THEN EnsureCursorInView(@[v], e.documents[@[v].doc])
                                      ELSE @[v]]]

\* Editor::_refresh
_refresh(e) ==
    IF e.panicked THEN e
    ELSE IF \E v \in DOMAIN e.tree.views :
               \/ e.tree.views[v].doc \notin DOMAIN e.documents
               \/ v \notin DOMAIN e.documents[e.tree.views[v].doc].selections
         THEN Panic(e)
         ELSE [e EXCEPT !.tree.views =
                  [v \in DOMAIN @ |-> EnsureCursorInView(@[v], e.documents[@[v].doc])]]

\* replace_document_in_view that starts the selections of the document afresh
replace_document_in_view_reseeded(e, current_view, doc_id) ==
    IF e.panicked THEN e
    ELSE IF current_view \notin DOMAIN e.tree.views \/ doc_id \notin DOMAIN e.documents
         THEN Panic(e)
         ELSE [e EXCEPT !.tree.views[current_view].doc = doc_id,
                        !.tree.views[current_view].offset = 0,
                        !.documents[doc_id].selections = (current_view :> 0)]

\* replace_document_in_view without "initialize selection for view"
replace_document_in_view_unseeded(e, current_view, doc_id) ==
    IF e.panicked THEN e
    ELSE IF current_view \notin DOMAIN e.tree.views \/ doc_id \notin DOMAIN e.documents
         THEN Panic(e)
         ELSE LET selections == e.documents[doc_id].selections
                  line == IF current_view \in DOMAIN selections
                          THEN CharToLine(selections[current_view]) ELSE 0
              IN [e EXCEPT !.tree.views[current_view].doc = doc_id,
                           !.tree.views[current_view].offset = SatSub(line, ViewHeight \div 2)]

\* Editor::replace_document_in_view
replace_document_in_view(e, current_view, doc_id) ==
    IF e.panicked THEN e
    ELSE IF current_view \notin DOMAIN e.tree.views \/ doc_id \notin DOMAIN e.documents
         THEN Panic(e)
         ELSE LET selections == e.documents[doc_id].selections
                  seeded == IF current_view \in DOMAIN selections THEN selections
                            ELSE Put(selections, current_view, 0)
                  line == CharToLine(seeded[current_view])
              IN [e EXCEPT !.tree.views[current_view].doc = doc_id,
                           !.tree.views[current_view].offset = SatSub(line, ViewHeight \div 2),
                           !.documents[doc_id].selections = seeded]

\* remove_empty_scratch without the look at the other splits
RemoveEmptyScratchOtherViewsIgnored(e, view, doc, id) ==
    /\ ~doc.modified
    /\ doc.path = NoPath
    /\ id # doc.id

\* remove_empty_scratch that takes a document with a path for a scratch buffer
RemoveEmptyScratchPathIgnored(e, view, doc, id) ==
    /\ ~doc.modified
    /\ id # doc.id
    /\ ~\E v \in DOMAIN e.tree.views :
            e.tree.views[v].doc = doc.id /\ e.tree.views[v].id # view.id

\* remove_empty_scratch of Editor::switch, Action::Replace
RemoveEmptyScratch(e, view, doc, id) ==
    /\ ~doc.modified
    /\ doc.path = NoPath
    /\ id # doc.id
    /\ ~\E v \in DOMAIN e.tree.views :
            e.tree.views[v].doc = doc.id /\ e.tree.views[v].id # view.id

\* Editor::switch, Action::Replace
SwitchReplace(e, id) ==
    IF e.tree.focus \notin DOMAIN e.tree.views THEN Panic(e)
    ELSE LET view == e.tree.views[e.tree.focus] IN
         IF view.doc \notin DOMAIN e.documents THEN Panic(e)
         ELSE LET doc == e.documents[view.doc] IN
              IF RemoveEmptyScratch(e, view, doc, id)
              THEN replace_document_in_view(
                       [e EXCEPT !.documents = Remove(@, doc.id)], view.id, id)
              ELSE IF view.id \notin DOMAIN doc.selections THEN Panic(e)
              ELSE replace_document_in_view(
                       [e EXCEPT !.tree.views[view.id].jumps =
                                     Append(@, <<view.doc, doc.selections[view.id]>>),
                                 !.tree.views[view.id].last_accessed_doc = view.doc],
                       view.id, id)

\* a Load that seeds the selection of the focused view whenever that view has
\* none in the document
SwitchLoadSeedsPerView(e, id) ==
    IF e.tree.focus \notin DOMAIN e.tree.views THEN Panic(e)
    ELSE LET view_id == e.tree.views[e.tree.focus].id IN
         IF id \notin DOMAIN e.documents THEN Panic(e)
         ELSE IF view_id \notin DOMAIN e.documents[id].selections
         THEN [e EXCEPT !.documents[id].selections = Put(@, view_id, 0)]
         ELSE e

\* Editor::switch, Action::Load
SwitchLoad(e, id) ==
    IF e.tree.focus \notin DOMAIN e.tree.views THEN Panic(e)
    ELSE LET view_id == e.tree.views[e.tree.focus].id IN
         IF id \notin DOMAIN e.documents THEN Panic(e)
         ELSE IF DOMAIN e.documents[id].selections = {}
         THEN [e EXCEPT !.documents[id].selections = Put(@, view_id, 0)]
         ELSE e

\* a split whose view starts from the selection of the view it was split from
SwitchSplitCopiesSelection(e, id) ==
    LET t == TreeInsert(e.tree, ViewNew(id))
        view_id == t.focus
    IN IF id \notin DOMAIN e.documents THEN Panic(e)
       ELSE LET selections == e.documents[id].selections
                from == IF e.tree.focus \in DOMAIN selections
                        THEN selections[e.tree.focus] ELSE 0
            IN _refresh([e EXCEPT !.tree = t,
                                  !.documents[id].selections = Put(@, view_id, from)])

\* Editor::switch, Action::HorizontalSplit | Action::VerticalSplit
SwitchSplit(e, id) ==
    LET t == TreeInsert(e.tree, ViewNew(id))
        view_id == t.focus
    IN IF id \notin DOMAIN e.documents THEN Panic(e)
       ELSE _refresh([e EXCEPT !.tree = t,
                          !.documents[id].selections = Put(@, view_id, 0)])

\* a guard that only rejects the ids not minted yet
SwitchStaleNeverMinted(e, id) == id >= e.next_document_id

\* the guard of Editor::switch: !self.documents.contains_key(&id)
SwitchStale(e, id) == id \notin DOMAIN e.documents

\* Editor::switch
switch(e, id, action) ==
    IF e.panicked THEN e
    ELSE IF SwitchStale(e, id) THEN e
    ELSE CASE action = "Replace" -> SwitchReplace(e, id)
           [] action = "Load" -> SwitchLoad(e, id)
           [] OTHER -> SwitchSplit(e, id)

\* new_document that takes the id after the largest live one
new_document_after_max(e, doc) ==
    LET id == IF DOMAIN e.documents = {} THEN DocumentIdDefault
              ELSE (CHOOSE x \in DOMAIN e.documents : \A y \in DOMAIN e.documents : y <= x) + 1
    IN [e EXCEPT !.next_document_id = id + 1,
                 !.documents = Put(@, id, [doc EXCEPT !.id = id])]

\* Editor::new_document
new_document(e, doc) ==
    LET id == e.next_document_id IN
    [e EXCEPT !.next_document_id = @ + 1,
              !.documents = Put(@, id, [doc EXCEPT !.id = id])]

\* Editor::new_file_from_document / Editor::new_file
new_file_from_document(e, action, doc) ==
    LET id == e.next_document_id IN switch(new_document(e, doc), id, action)

\* Editor::close: the editors that may result
close(e, id) ==
    IF e.panicked THEN {e}
    ELSE IF e.tree.focus \notin DOMAIN e.tree.views THEN {Panic(e)}
    ELSE LET view == e.tree.views[e.tree.focus] IN
         IF view.doc \notin DOMAIN e.documents \/ id \notin DOMAIN e.tree.views
         THEN {Panic(e)}
         ELSE LET e1 == [e EXCEPT !.documents[view.doc].selections = Remove(@, id)]
              IN {_refresh([e1 EXCEPT !.tree = t]) : t \in TreeRemove(e1.tree, id)}

\* ---------------------------------------------------- language servers
\* helix_lsp::Registry::get(language): the outcomes. The lookup fails, or gives
\* the client already started for the language, or starts one under a fresh id
RegistryGet(ls, language) ==
    {[ls |-> ls, server |-> NoServer],
     IF language \in DOMAIN ls
     THEN [ls |-> ls, server |-> ls[language]]
     ELSE [ls |-> Put(ls, language, Cardinality(DOMAIN ls) + 1),
           server |-> Cardinality(DOMAIN ls) + 1]}

\* Document::detect_language: the languages the loader may find for the document
DetectLanguage(loader, path) ==
    IF path = NoPath THEN {NoLanguage} ELSE loader \cup {NoLanguage}

\* tokio::spawn(server.text_document_did_close(..)) / ..did_open(..)
DidClose(server, url) == [kind |-> "did_close", server |-> server, url |-> url]
DidOpen(server, url) == [kind |-> "did_open", server |-> server, url |-> url]

\* launch_language_server that announces the document whatever server is bound
LaunchWithAlways(found, sp, doc) ==
    LET same == [ls |-> found.ls, spawned |-> sp, doc |-> doc, panicked |-> FALSE] IN
    IF found.server = NoServer THEN same
    ELSE IF doc.path = NoPath THEN [same EXCEPT !.panicked = TRUE]
    ELSE LET sp1 == IF doc.language_server # NoServer
                    THEN Append(sp, DidClose(doc.language_server, doc.path))
                    ELSE sp
         IN [ls |-> found.ls,
             spawned |-> Append(sp1, DidOpen(found.server, doc.path)),
             doc |-> [doc EXCEPT !.language_server = found.server],
             panicked |-> FALSE]

\* launch_language_server that announces the document to the new server before
\* it takes it back from the old one
LaunchWithOpenFirst(found, sp, doc) ==
    LET same == [ls |-> found.ls, spawned |-> sp, doc |-> doc, panicked |-> FALSE] IN
    IF found.server = NoServer THEN same
    ELSE IF found.server = doc.language_server THEN same
    ELSE IF doc.path = NoPath THEN [same EXCEPT !.panicked = TRUE]
    ELSE LET sp1 == Append(sp, DidOpen(found.server, doc.path))
         IN [ls |-> found.ls,
             spawned |-> IF doc.language_server # NoServer
                         THEN Append(sp1, DidClose(doc.language_server, doc.path))
                         ELSE sp1,
             doc |-> [doc EXCEPT !.language_server = found.server],
             panicked |-> FALSE]

\* the body of launch_language_server once the registry has answered
LaunchWith(found, sp, doc) ==
    LET same == [ls |-> found.ls, spawned |-> sp, doc |-> doc, panicked |-> FALSE] IN
    IF found.server = NoServer THEN same
    ELSE IF found.server = doc.language_server THEN same
    ELSE IF doc.path = NoPath THEN [same EXCEPT !.panicked = TRUE]
    ELSE LET sp1 == IF doc.language_server # NoServer
                    THEN Append(sp, DidClose(doc.language_server, doc.path))
                    ELSE sp
         IN [ls |-> found.ls,
             spawned |-> Append(sp1, DidOpen(found.server, doc.path)),
             doc |-> [doc EXCEPT !.language_server = found.server],
             panicked |-> FALSE]

\* Editor::launch_language_server(ls, doc): the outcomes
launch_language_server(ls, sp, doc) ==
    IF doc.language = NoLanguage
    THEN {[ls |-> ls, spawned |-> sp, doc |-> doc, panicked |-> FALSE]}
    ELSE {LaunchWith(found, sp, doc) : found \in RegistryGet(ls, doc.language)}

\* Editor::refresh_language_server: the editors that may result
refresh_language_server(e, doc_id) ==
    IF doc_id \notin DOMAIN e.documents THEN {e}
    ELSE UNION {
           {[e EXCEPT !.language_servers = r.ls, !.spawned = r.spawned,
                      !.documents[doc_id] = r.doc, !.panicked = r.panicked]
              : r \in launch_language_server(
                          e.language_servers, e.spawned,
                          [e.documents[doc_id] EXCEPT !.language = language])}
           : language \in DetectLanguage(e.syn_loader, e.documents[doc_id].path)}

\* --------------------------------------------------------------- shutdown
\* no call of close_language_servers has been made
NotShutDown ==
    [state |-> "none", timeout |-> NoTimeout, called_at |-> 0, deadline |-> 0,
     clients |-> {}, pending |-> {}, completed |-> EmptyMap]

\* helix_lsp::Registry::iter_clients
IterClients(ls) == {ls[language] : language \in DOMAIN ls}

\* tokio::time::timeout(duration, future::join_all(..)) polled at instant t: the
\* joined shutdowns are looked at first, the deadline next
TimeoutPoll(call, t) ==
    [call EXCEPT !.state = IF call.pending = {} THEN "ok"
                           ELSE IF call.deadline <= t THEN "elapsed"
                           ELSE "awaiting"]

\* a timeout argument of which 0 counts as left out
TimeoutMillisZeroIsNone(timeout) ==
    IF timeout = NoTimeout \/ timeout = 0 THEN DefaultTimeoutMillis ELSE timeout

\* timeout.unwrap_or(500)
TimeoutMillis(timeout) ==
    IF timeout = NoTimeout THEN DefaultTimeoutMillis ELSE timeout

\* Editor::close_language_servers(timeout) called at instant t, up to the first
\* poll: a force_shutdown waits for the answer of its server, so none of them
\* is complete yet
close_language_servers(e, timeout, t) ==
    TimeoutPoll([state |-> "awaiting",
                 timeout |-> timeout,
                 called_at |-> t,
                 deadline |-> t + TimeoutMillis(timeout),
                 clients |-> IterClients(e.language_servers),
                 pending |-> IterClients(e.language_servers),
                 completed |-> EmptyMap], t)

\* ------------------------------------------------------------------- open
\* document_by_path that finds nothing
document_by_path_none(e, path) == NoDoc

\* Editor::document_by_path: the id of the first document with the path
document_by_path(e, path) ==
    LET found == {d \in DOMAIN e.documents : e.documents[d].path = path} IN
    IF found = {} THEN NoDoc ELSE Min(found)

\* Editor::open with a path that canonicalizes and a file that loads: the
\* outcomes, each the editor and the id returned
open(e, path, action) ==
    LET id == document_by_path(e, path) IN
    IF id # NoDoc THEN {[e |-> switch(e, id, action), id |-> id]}
    ELSE UNION {
           {[e |-> switch(new_document([e EXCEPT !.language_servers = r.ls,
                                                 !.spawned = r.spawned,
                                                 !.panicked = r.panicked], r.doc),
                          e.next_document_id, action),
             id |-> e.next_document_id]
              : r \in launch_language_server(e.language_servers, e.spawned,
                                             DocumentOpen(path, language))}
           : language \in DetectLanguage(e.syn_loader, path)}

\* --------------------------------------------------------- close_document
\* a loop that stops after the first view
CloseViewsFirstOnly(e, views_to_close) ==
    IF views_to_close = {} THEN {e}
    ELSE UNION {close(e, view_id) : view_id \in views_to_close}

\* the loop over views_to_close: the editors that may result; the views are
\* closed in the order the tree yields them, which is the tree's business
RECURSIVE CloseViews(_, _)
CloseViews(e, views_to_close) ==
    IF views_to_close = {} THEN {e}
    ELSE UNION {UNION {CloseViews(e1, views_to_close \ {view_id}) : e1 \in close(e, view_id)}
                  : view_id \in views_to_close}

\* close_document without the fallback view
FallbackViewNone(e) == e

\* the end of close_document: a view for the tree that has none left
FallbackView(e) ==
    IF e.panicked \/ DOMAIN e.tree.views # {} THEN e
    ELSE LET e1 == IF DOMAIN e.documents # {} THEN e ELSE new_document(e, DocumentDefault)
             doc_id == IF DOMAIN e.documents # {} THEN Min(DOMAIN e.documents)
                       ELSE e.next_document_id
             t == TreeInsert(e1.tree, ViewNew(doc_id))
         IN [e1 EXCEPT !.tree = t,
                       !.documents[doc_id].selections = Put(@, t.focus, 0)]

\* a guard that also keeps every document with a path from an unforced close
CloseGuardPathKept(doc, force) == ~force /\ (doc.modified \/ doc.path # NoPath)

\* a guard that forgets force
CloseGuardForceIgnored(doc, force) == doc.modified

\* the modified-buffer guard of close_document
CloseGuard(doc, force) == ~force /\ doc.modified

\* a close_document that waits for the notifications of the document still in
\* flight before it spawns the did_close
CloseDocumentNotifiedAwaitsOpen(e, doc_id) ==
    LET doc == e.documents[doc_id] IN
    IF doc.language_server = NoServer THEN e
    ELSE IF doc.path = NoPath THEN Panic(e)
    ELSE [e EXCEPT !.spawned =
             Append(SelectSeq(@, LAMBDA task : task.url # doc.path),
                    DidClose(doc.language_server, doc.path))]

\* a close_document that tells no server
CloseDocumentNotifiedNever(e, doc_id) == e

\* close_document past its guards: the did_close for the document is spawned
\* when a server is bound, with the document still in the registry
CloseDocumentNotified(e, doc_id) ==
    LET doc == e.documents[doc_id] IN
    IF doc.language_server = NoServer THEN e
    ELSE IF doc.path = NoPath THEN Panic(e)
    ELSE [e EXCEPT !.spawned = Append(@, DidClose(doc.language_server, doc.path))]

\* Editor::close_document: the outcomes, each the editor and the result
close_document(e, doc_id, force) ==
    IF doc_id \notin DOMAIN e.documents THEN {[e |-> e, ret |-> "not_found"]}
    ELSE LET doc == e.documents[doc_id] IN
         IF CloseGuard(doc, force) THEN {[e |-> e, ret |-> "modified"]}
         ELSE LET e1 == CloseDocumentNotified(e, doc_id)
                  views_to_close ==
                      {v \in DOMAIN e.tree.views : e.tree.views[v].doc = doc_id}
                  removed(e2) == IF e2.panicked THEN e2
                                 ELSE [e2 EXCEPT !.documents = Remove(@, doc_id)]
              IN {[e |-> _refresh(FallbackView(removed(e2))), ret |-> "ok"]
                    : e2 \in CloseViews(e1, views_to_close)}

\* ------------------------------------------------------------ the machine
InitWith(loader) ==
    /\ tree = EditorNew(loader).tree
    /\ next_document_id = EditorNew(loader).next_document_id
    /\ documents = EditorNew(loader).documents
    /\ syn_loader = loader
    /\ language_servers = EditorNew(loader).language_servers
    /\ spawned = EditorNew(loader).spawned
    /\ panicked = FALSE
    /\ last = [op |-> "new", ret |-> "ok", action |-> "", id |-> NoDoc]
    /\ now = 0
    /\ idle_timer = EditorNewIdleTimer(0)
    /\ idle_calls = <<>>
    /\ shutdown = NotShutDown

\* an editor whose syntax loader knows no language: no language server is used
Init == InitWith({})
\* an editor whose syntax loader knows Languages
InitLsp == InitWith(Languages)

RECURSIVE SumJumps(_, _)
SumJumps(views, S) ==
    IF S = {} THEN 0
    ELSE LET v == CHOOSE x \in S : TRUE
         IN Len(views[v].jumps) + SumJumps(views, S \ {v})

\* the objects the editor e has minted
Minted(e) ==
    (e.next_document_id - 1) + (e.tree.next_key - 1) + Len(e.spawned)
        + SumJumps(e.tree.views, DOMAIN e.tree.views)

\* The call returns with the editor e, or panics: a panic ends the program and
\* nothing of the editor outlives it
Returns(cap, e, call) ==
    IF e.panicked
    THEN /\ panicked' = TRUE
         /\ last' = [op |-> "panic", ret |-> "panic", action |-> "", id |-> NoDoc]
         /\ tree' = TreeNew
         /\ next_document_id' = DocumentIdDefault
         /\ documents' = EmptyMap
         /\ language_servers' = EmptyMap
         /\ spawned' = <<>>
         /\ UNCHANGED <<syn_loader, now, idle_timer, idle_calls, shutdown>>
    ELSE /\ Minted(e) <= cap
         /\ tree' = e.tree
         /\ next_document_id' = e.next_document_id
         /\ documents' = e.documents
         /\ language_servers' = e.language_servers
         /\ spawned' = e.spawned
         /\ last' = call
         /\ UNCHANGED <<panicked, syn_loader, now, idle_timer, idle_calls, shutdown>>

Call(op, ret, action, id) == [op |-> op, ret |-> ret, action |-> action, id |-> id]

\* the ids a caller may pass: the live ones, the removed ones and the next one
DocumentIds == 1 .. next_document_id

Switch(cap, id, action) ==
    /\ ~panicked
    /\ Returns(cap, switch(self, id, action),
               Call("switch", IF id \in DOMAIN documents THEN "ok" ELSE "stale", action, NoDoc))

NewFile(cap, action) ==
    /\ ~panicked
    /\ Returns(cap, new_file_from_document(self, action, DocumentDefault),
               Call("new_file", "ok", "", NoDoc))

Open(cap, path, action) ==
    /\ ~panicked
    /\ \E r \in open(self, path, action) :
          Returns(cap, r.e, Call("open", "ok", "", r.id))

\* Editor::open when get_canonicalized_path or Document::open fails: Err, by `?`
OpenFails(cap, path, action) ==
    /\ ~panicked
    /\ Returns(cap, self, Call("open", "err", "", NoDoc))

Close(cap, id) ==
    /\ ~panicked
    /\ \E e \in close(self, id) : Returns(cap, e, Call("close", "ok", "", NoDoc))

CloseDocument(cap, doc_id, force) ==
    /\ ~panicked
    /\ \E r \in close_document(self, doc_id, force) :
          Returns(cap, r.e, Call("close_document", r.ret, "", doc_id))

RefreshLanguageServer(cap, doc_id) ==
    /\ ~panicked
    /\ \E e \in refresh_language_server(self, doc_id) :
          Returns(cap, e, Call("refresh_language_server", "ok", "", NoDoc))

\* Editor::focus_next / focus_left / focus_right / focus_up / focus_down
Focus(cap, id) ==
    /\ ~panicked
    /\ id # tree.focus
    /\ Returns(cap, [self EXCEPT !.tree.focus = id], Call("focus", "ok", "", NoDoc))

\* an edit made by the command layer through the focused view: the document
\* becomes modified and the view's selection in it moves
Edit(cap, pos) ==
    /\ ~panicked
    /\ tree.focus \in DOMAIN tree.views
    /\ tree.views[tree.focus].doc \in DOMAIN documents
    /\ LET doc_id == tree.views[tree.focus].doc IN
       Returns(cap, [self EXCEPT !.documents[doc_id].modified = TRUE,
                                 !.documents[doc_id].selections = Put(@, tree.focus, pos)],
               Call("edit", "ok", "", NoDoc))

\* a spawned notification task runs to its end, whenever the runtime gets to it
TaskCompletes(cap, i) ==
    /\ ~panicked
    /\ Returns(cap, [self EXCEPT !.spawned = SubSeq(@, 1, i - 1) \o SubSeq(@, i + 1, Len(@))],
               Call("task", "ok", "", NoDoc))

\* the calls made on the idle timer: the one made now and the one before it
IdleCalled(op) ==
    LET calls == <<[op |-> op, at |-> now]>> \o idle_calls
    IN IF Len(calls) > 2 THEN SubSeq(calls, 1, 2) ELSE calls

\* Editor::reset_idle_timer, called by the event loop on a key press
ResetIdleTimer ==
    /\ ~panicked
    /\ idle_timer' = reset_idle_timer(now)
    /\ idle_calls' = IdleCalled("reset_idle_timer")
    /\ last' = Call("reset_idle_timer", "ok", "", NoDoc)
    /\ UNCHANGED <<tree, next_document_id, documents, syn_loader, language_servers,
                   spawned, panicked, now, shutdown>>

\* Editor::clear_idle_timer, called by the event loop when the timer has fired
\* or must not fire
ClearIdleTimer ==
    /\ ~panicked
    /\ idle_timer' = clear_idle_timer(now)
    /\ idle_calls' = IdleCalled("clear_idle_timer")
    /\ last' = Call("clear_idle_timer", "ok", "", NoDoc)
    /\ UNCHANGED <<tree, next_document_id, documents, syn_loader, language_servers,
                   spawned, panicked, now, shutdown>>

\* Editor::close_language_servers(timeout) is called and polled for the first
\* time: it returns at once or leaves the caller awaiting
CloseLanguageServers(timeout) ==
    /\ ~panicked
    /\ shutdown.state = "none"
    /\ LET call == close_language_servers(self, timeout, now) IN
       /\ shutdown' = call
       /\ last' = Call("close_language_servers", call.state, "", NoDoc)
    /\ UNCHANGED <<tree, next_document_id, documents, syn_loader, language_servers,
                   spawned, panicked, now, idle_timer, idle_calls>>

\* the force_shutdown of a client completes (with or without an error) and the
\* awaiting close_language_servers is polled
ClientShutsDown(client) ==
    /\ ~panicked
    /\ shutdown.state = "awaiting"
    /\ client \in shutdown.pending
    /\ LET call == TimeoutPoll([shutdown EXCEPT !.pending = @ \ {client},
                                                !.completed = Put(@, client, now)], now)
       IN /\ shutdown' = call
          /\ last' = Call("close_language_servers", call.state, "", NoDoc)
    /\ UNCHANGED <<tree, next_document_id, documents, syn_loader, language_servers,
                   spawned, panicked, now, idle_timer, idle_calls>>

\* the clock advances, at most cap times; the timeout of an awaiting
\* close_language_servers fires when its deadline is reached
Tick(cap) ==
    /\ ~panicked
    /\ now < cap * TickMillis
    /\ now' = now + TickMillis
    /\ IF shutdown.state = "awaiting"
       THEN LET call == TimeoutPoll(shutdown, now + TickMillis) IN
            /\ shutdown' = call
            /\ last' = Call("close_language_servers", call.state, "", NoDoc)
       ELSE UNCHANGED <<shutdown, last>>
    /\ UNCHANGED <<tree, next_document_id, documents, syn_loader, language_servers,
                   spawned, panicked, idle_timer, idle_calls>>

\* the calls on the documents and views of the editor
NextCore(cap) ==
    \/ \E id \in DocumentIds, action \in Actions : Switch(cap, id, action)
    \/ \E action \in Actions : NewFile(cap, action)
    \/ \E path \in Paths, action \in Actions : Open(cap, path, action)
    \/ \E path \in Paths, action \in Actions : OpenFails(cap, path, action)
    \/ \E id \in DOMAIN tree.views : Close(cap, id)
    \/ \E doc_id \in DocumentIds, force \in BOOLEAN : CloseDocument(cap, doc_id, force)
    \/ \E id \in DOMAIN tree.views : Focus(cap, id)
    \/ \E pos \in Positions : Edit(cap, pos)

Next == NextCore(MaxMinted)
Spec == Init /\ [][Next]_vars

\* the same editor, one object deeper, when its callers open every document
\* into a split of its own and never replace or load one
NextDeep ==
    \/ \E id \in DocumentIds, action \in Splits : Switch(MaxMintedDeep, id, action)
    \/ \E action \in Splits : NewFile(MaxMintedDeep, action)
    \/ \E id \in DOMAIN tree.views : Close(MaxMintedDeep, id)
    \/ \E doc_id \in DocumentIds, force \in BOOLEAN : CloseDocument(MaxMintedDeep, doc_id, force)
    \/ \E id \in DOMAIN tree.views : Focus(MaxMintedDeep, id)
    \/ \E pos \in Positions : Edit(MaxMintedDeep, pos)
SpecDeep == Init /\ [][NextDeep]_vars

\* an editor with language servers, whose callers open files in a split or in
\* the background, re-detect languages and close documents, while the runtime
\* runs the notification tasks
NextLsp ==
    \/ \E action \in Splits : NewFile(MaxMintedLsp, action)
    \/ \E path \in Paths, action \in Splits \cup {"Load"} : Open(MaxMintedLsp, path, action)
    \/ \E doc_id \in DocumentIds : RefreshLanguageServer(MaxMintedLsp, doc_id)
    \/ \E doc_id \in DocumentIds, force \in BOOLEAN : CloseDocument(MaxMintedLsp, doc_id, force)
    \/ \E i \in 1 .. Len(spawned) : TaskCompletes(MaxMintedLsp, i)
SpecLsp == InitLsp /\ [][NextLsp]_vars

\* an editor whose edits move the cursor below the rows of the view, so that
\* the views have something to scroll
NextScroll ==
    \/ \E id \in DocumentIds, action \in Actions : Switch(MaxMintedScroll, id, action)
    \/ \E action \in Actions : NewFile(MaxMintedScroll, action)
    \/ \E id \in DOMAIN tree.views : Close(MaxMintedScroll, id)
    \/ \E id \in DOMAIN tree.views : Focus(MaxMintedScroll, id)
    \/ \E pos \in ScrollPositions : Edit(MaxMintedScroll, pos)
SpecScroll == Init /\ [][NextScroll]_vars

\* an editor whose documents are opened from files and whose callers never
\* force a close: its first document has a path
NextUnforced ==
    \/ \E path \in Paths, action \in Actions : Open(MaxMintedUnforced, path, action)
    \/ \E id \in DocumentIds, action \in Actions : Switch(MaxMintedUnforced, id, action)
    \/ \E doc_id \in DocumentIds : CloseDocument(MaxMintedUnforced, doc_id, FALSE)
    \/ \E id \in DOMAIN tree.views : Focus(MaxMintedUnforced, id)
    \/ \E pos \in Positions : Edit(MaxMintedUnforced, pos)
SpecUnforced == Init /\ [][NextUnforced]_vars

\* the idle timer of an editor whose event loop resets and clears it while
\* time passes
NextIdle ==
    \/ ResetIdleTimer
    \/ ClearIdleTimer
    \/ Tick(MaxTicks)
SpecIdle == Init /\ [][NextIdle]_vars

\* an editor with language servers that opens files, re-detects languages and,
\* as its last call, closes the language servers; while that call is awaited
\* the editor is borrowed, the clients shut down and time passes
NextShutdown ==
    \/ \E path \in Paths, action \in Splits :
          shutdown.state = "none" /\ Open(MaxMintedShutdown, path, action)
    \/ \E doc_id \in DocumentIds :
          shutdown.state = "none" /\ RefreshLanguageServer(MaxMintedShutdown, doc_id)
    \/ \E i \in 1 .. Len(spawned) :
          shutdown.state = "none" /\ TaskCompletes(MaxMintedShutdown, i)
    \/ \E timeout \in Timeouts : CloseLanguageServers(timeout)
    \/ \E client \in shutdown.pending : ClientShutsDown(client)
    \/ shutdown.state = "awaiting" /\ Tick(MaxTicks)
SpecShutdown == InitLsp /\ [][NextShutdown]_vars

\* ------------------------------------------------------------- the claims
Keys == DOMAIN documents
Views == DOMAIN tree.views
Displaying(d) == {v \in Views : tree.views[v].doc = d}
EditorUnchanged ==
    UNCHANGED <<tree, next_document_id, documents, syn_loader, language_servers,
                spawned, panicked>>

\* C1: after any successful close_document(doc_id, force) the view tree holds
\* at least one view, every view's doc is a key of the registry, and doc_id is
\* no longer a key.
C1_CloseDocumentLeavesLiveView ==
    (last.op = "close_document" /\ last.ret = "ok") =>
        /\ Views # {}
        /\ \A v \in Views : tree.views[v].doc \in Keys
        /\ last.id \notin Keys

\* a successful close_document that had to synthesize the fallback view on a
\* brand-new document
C1_Witness ==
    /\ last.op = "close_document" /\ last.ret = "ok"
    /\ Cardinality(Views) = 1
    /\ Keys = {next_document_id - 1}
    /\ last.id < next_document_id - 1

\* C2: close_document(id, force = false) on a modified document returns the
\* "modified" error and leaves the registry, the view tree and every selection
\* map as they were; close_document(id, force = true) on an id of the registry
\* succeeds, modified or not.
C2_ModifiedGuard ==
    [][last'.op \in {"close_document", "panic"} =>
        \A d \in Keys :
            /\ (documents[d].modified /\ CloseDocument(MaxMinted, d, FALSE))
                  => (last'.ret = "modified" /\ EditorUnchanged)
            /\ CloseDocument(MaxMinted, d, TRUE) => last'.ret = "ok"]_vars

\* the error has been returned for a modified document shown in a view
C2_Witness ==
    /\ last.op = "close_document" /\ last.ret = "modified"
    /\ last.id \in Keys /\ documents[last.id].modified
    /\ Displaying(last.id) # {}

C4_OpenSamePathOnce ==
    /\ [](\A d1 \in Keys, d2 \in Keys :
            (documents[d1].path # NoPath /\ documents[d1].path = documents[d2].path)
                => d1 = d2)
    /\ [][(last'.op = "open" /\ last'.ret = "ok") =>
            \A path \in Paths, action \in Actions :
                (document_by_path(self, path) # NoDoc /\ Open(MaxMinted, path, action)) =>
                    /\ last'.id = document_by_path(self, path)
                    /\ DOMAIN documents' \subseteq Keys
                    /\ next_document_id' = next_document_id]_vars

\* a second open of the path has returned the document of the first
C4_Witness ==
    /\ last.op = "open" /\ last.ret = "ok"
    /\ last.id \in Keys /\ documents[last.id].path \in Paths
    /\ next_document_id = last.id + 1
    /\ Cardinality(Displaying(last.id)) = 2

\* C5: next_document_id only moves by +1, at a mint; every key of the registry
\* is below it; the only key an operation adds is the old next_document_id, so
\* an id that was removed (the largest included) is never minted again.
C5_IdsNeverReused ==
    /\ [](\A d \in Keys : d < next_document_id)
    /\ [][~panicked' =>
            /\ next_document_id' \in {next_document_id, next_document_id + 1}
            /\ (DOMAIN documents') \ Keys \subseteq {next_document_id}
            /\ (next_document_id' = next_document_id + 1)
                  <=> (next_document_id \in DOMAIN documents')]_vars

\* a document has been minted after the largest id was removed
C5_Witness ==
    /\ last.op = "new_file"
    /\ (next_document_id - 1) \in Keys
    /\ (next_document_id - 2) >= 1 /\ (next_document_id - 2) \notin Keys
    /\ Cardinality(Keys) >= 2

C7_CloseDocumentOfBothSplits ==
    [][last'.op \in {"close_document", "panic"} =>
        \A d \in Keys :
            (/\ Keys = {d}
             /\ Cardinality(Views) = 2
             /\ Displaying(d) = Views
             /\ CloseDocument(MaxMintedDeep, d, TRUE)) =>
                /\ last'.ret = "ok"
                /\ DOMAIN documents' = {next_document_id}
                /\ next_document_id' = next_document_id + 1
                /\ Cardinality(DOMAIN tree'.views) = 1
                /\ (DOMAIN tree'.views) \cap Views = {}
                /\ \A v \in DOMAIN tree'.views :
                      /\ tree'.views[v].doc = next_document_id
                      /\ tree'.focus = v
                      /\ documents'[next_document_id].selections = (v :> 0)]_vars

\* the third view, alone in the tree, on the second document
C7_Witness ==
    /\ last.op = "close_document" /\ last.ret = "ok" /\ last.id = 1
    /\ Views = {3} /\ tree.next_key = 4
    /\ Keys = {2} /\ next_document_id = 3
    /\ tree.views[3].doc = 2

\* C8 as claimed: Editor::new returns an editor with one document and one view
C8_NewHasOneDocumentOneView ==
    last.op = "new" => (Cardinality(Keys) = 1 /\ Cardinality(Views) = 1)

\* C8: Editor::new returns an editor with an empty registry, a tree without
\* views and next_document_id at DocumentId::default(); the first document and
\* view come with the first new_file or open.
C8_NewIsEmpty ==
    last.op = "new" =>
        (Keys = {} /\ Views = {} /\ next_document_id = DocumentIdDefault)

\* the editor as Editor::new returns it
C8_Witness == last.op = "new" /\ ~panicked /\ tree.focus = NoView

\* C9: switch(id, action) with an id that is no key of the registry changes
\* nothing, whatever the action.
C9_SwitchStaleIsNoOp ==
    [][last'.op \in {"switch", "panic"} =>
        \A id \in DocumentIds \ Keys, action \in Actions :
            Switch(MaxMinted, id, action) => EditorUnchanged]_vars

\* a switch to the id of a removed document, with views and documents around
C9_Witness ==
    /\ last.op = "switch" /\ last.ret = "stale" /\ last.action = "Replace"
    /\ Views # {} /\ Keys # {}
    /\ \E d \in 1 .. (next_document_id - 1) : d \notin Keys

\* C10: when the registry returns, for the language detected, the server the
\* document is already bound to, launch_language_server dispatches no
\* notification and leaves the binding as it is, at every repetition.
C10_SameServerNoNotification ==
    [][last'.op \in {"refresh_language_server", "panic"} =>
        \A d \in Keys :
            (/\ RefreshLanguageServer(MaxMintedLsp, d)
             /\ ~panicked'
             /\ documents'[d].language \in DOMAIN language_servers
             /\ language_servers[documents'[d].language] = documents[d].language_server) =>
                /\ spawned' = spawned
                /\ documents'[d].language_server = documents[d].language_server
                /\ language_servers' = language_servers]_vars

\* a sync of a document bound to the server of its language, after its
\* did_open task has run: nothing is in flight
C10_Witness ==
    /\ last.op = "refresh_language_server"
    /\ spawned = <<>>
    /\ \E d \in Keys :
          /\ documents[d].language \in DOMAIN language_servers
          /\ documents[d].language_server = language_servers[documents[d].language]

\* C11: after reset_idle_timer followed by clear_idle_timer, with no later
\* call on the timer, the deadline is the far-future instant set by clear,
\* not the instant of the reset plus idle_timeout, and the timer has not
\* elapsed, however much of the time bound has passed since.
C11_ClearAfterResetDisarms ==
    (/\ Len(idle_calls) = 2
     /\ idle_calls[1].op = "clear_idle_timer"
     /\ idle_calls[2].op = "reset_idle_timer") =>
        /\ idle_timer = InstantAdd(InstantNow(idle_calls[1].at), DurationFromSecs(FarFutureSecs))
        /\ idle_timer # InstantAdd(InstantNow(idle_calls[2].at), idle_timeout)
        /\ ~IdleTimerElapsed(idle_timer, now)

\* the timer was reset and cleared at once, and more than idle_timeout has
\* passed since
C11_Witness ==
    /\ Len(idle_calls) = 2
    /\ idle_calls[1].op = "clear_idle_timer"
    /\ idle_calls[2].op = "reset_idle_timer"
    /\ idle_calls[1].at = idle_calls[2].at
    /\ now > idle_calls[2].at + IdleTimeoutMillis
    /\ IdleTimerElapsed(reset_idle_timer(idle_calls[2].at), now)

\* C12: close_language_servers with a timeout of 0 returns the timeout error at
\* once when there is a client, whose shutdown cannot be complete yet; without
\* clients it returns success at once, whatever the timeout; it returns success
\* only when every client completed its shutdown before the deadline, and the
\* timeout error only when the deadline was reached with a client still pending.
C12_ShutdownWithinTimeout ==
    shutdown.state # "none" =>
        /\ last.op = "close_language_servers" /\ last.ret = shutdown.state
        /\ (shutdown.timeout = 0 /\ shutdown.clients # {}) =>
              (shutdown.state = "elapsed" /\ now = shutdown.called_at)
        /\ shutdown.clients = {} =>
              (shutdown.state = "ok" /\ now = shutdown.called_at)
        /\ shutdown.state = "ok" =>
              \A client \in shutdown.clients :
                  /\ client \in DOMAIN shutdown.completed
                  /\ shutdown.completed[client] < shutdown.deadline
        /\ shutdown.state = "elapsed" =>
              (shutdown.pending # {} /\ shutdown.deadline <= now)
        /\ shutdown.state = "awaiting" =>
              (shutdown.pending # {} /\ now < shutdown.deadline)

\* the timeout error of a call with timeout 0 and two clients
C12_Witness ==
    /\ last.op = "close_language_servers" /\ last.ret = "elapsed"
    /\ shutdown.timeout = 0
    /\ Cardinality(shutdown.clients) = 2
    /\ shutdown.pending = shutdown.clients

\* C13 as claimed: close(view_id) removes view_id's selection entry from the
\* document that view_id displays, focused or not, and takes view_id out of the
\* tree.
C13_CloseRemovesOwnSelection ==
    [][last'.op \in {"close", "panic"} =>
        \A id \in Views :
            Close(MaxMinted, id) =>
                /\ id \notin DOMAIN tree'.views
                /\ tree.views[id].doc \in DOMAIN documents' =>
                      id \notin DOMAIN documents'[tree.views[id].doc].selections]_vars

\* C14 as claimed: for every document of the registry the keys of its
\* selections are exactly the views displaying it.
C14_SelectionsAreDisplayingViews ==
    \A d \in Keys : DOMAIN documents[d].selections = Displaying(d)

\* C14: for every document of the registry, every view displaying it has an
\* entry in its selections and every key of its selections is a view id the
\* tree has handed out; an entry may outlive the display (Replace keeps the
\* entry of the outgoing document, close of an unfocused view leaves the
\* closed view's entry) or precede it (Load seeds one for the focused view).
C14_SelectionsCoverDisplayingViews ==
    \A d \in Keys :
        /\ Displaying(d) \subseteq DOMAIN documents[d].selections
        /\ DOMAIN documents[d].selections \subseteq 1 .. (tree.next_key - 1)

\* a document kept by a Replace holds the entry of the view that left it, and
\* the document loaded in the background one for a view that never showed it
C14_Witness ==
    /\ Cardinality(Views) = 1
    /\ \E d1 \in Keys, d2 \in Keys :
          /\ d1 # d2
          /\ Displaying(d1) = {} /\ DOMAIN documents[d1].selections = Views
          /\ Displaying(d2) = Views /\ DOMAIN documents[d2].selections = Views
          /\ tree.views[tree.focus].last_accessed_doc = d1

\* every view shows the line of its cursor among its rows: what a _refresh
\* pass over every view leaves
Refreshed ==
    \A v \in Views :
        /\ tree.views[v].doc \in Keys
        /\ v \in DOMAIN documents[tree.views[v].doc].selections
        /\ LET line == CharToLine(documents[tree.views[v].doc].selections[v])
           IN tree.views[v].offset <= line /\ line < tree.views[v].offset + ViewHeight

\* C15 as claimed: a successful switch with Replace or a split ends with the
\* _refresh pass over every view.
C15_SwitchEndsRefreshed ==
    (last.op = "switch" /\ last.ret = "ok" /\ last.action \in Splits \cup {"Replace"})
        => Refreshed

\* C15: a successful switch with a split ends with the _refresh pass over
\* every view; Replace and Load end without it: Replace re-centres the focused
\* view on the cursor of the incoming document and leaves every other view as
\* it was, Load leaves the tree as it was.
C15_OnlySplitsEndRefreshed ==
    /\ []((last.op = "switch" /\ last.ret = "ok" /\ last.action \in Splits) => Refreshed)
    /\ [][(last'.op = "switch" /\ last'.ret = "ok" /\ last'.action \in {"Replace", "Load"}) =>
            /\ \A v \in Views \ {tree.focus} : tree'.views[v] = tree.views[v]
            /\ last'.action = "Load" => tree' = tree
            /\ last'.action = "Replace" =>
                  LET view == tree'.views[tree.focus] IN
                  view.offset = SatSub(CharToLine(documents'[view.doc].selections[view.id]),
                                       ViewHeight \div 2)]_vars

\* a split has scrolled another view to its cursor, which an edit had left
\* below its rows
C15_Witness ==
    /\ last.op = "switch" /\ last.ret = "ok" /\ last.action \in Splits
    /\ \E v \in Views \ {tree.focus} :
          /\ tree.views[v].offset > 0
          /\ CharToLine(documents[tree.views[v].doc].selections[v]) >= ViewHeight

\* C16 as claimed: close_document(id, force = false) removes the document
\* exactly when it is unmodified and pathless, the predicate of the Replace
\* auto-delete.
C16_UnforcedCloseOnlyOfScratch ==
    [][last'.op \in {"close_document", "panic"} =>
        \A d \in Keys :
            (CloseDocument(MaxMintedUnforced, d, FALSE) /\ ~panicked') =>
                (d \notin DOMAIN documents'
                    <=> (~documents[d].modified /\ documents[d].path = NoPath))]_vars

\* C16: close_document(id, force = false) removes the document exactly when it
\* is unmodified, with or without a path, and returns the "modified" error
\* otherwise; the path is part of the Replace auto-delete predicate only.
C16_UnforcedCloseOfUnmodified ==
    [][last'.op \in {"close_document", "panic"} =>
        \A d \in Keys :
            (CloseDocument(MaxMintedUnforced, d, FALSE) /\ ~panicked') =>
                /\ d \notin DOMAIN documents' <=> ~documents[d].modified
                /\ last'.ret = (IF documents[d].modified THEN "modified" ELSE "ok")]_vars

\* the first document, opened from a file, is gone after an unforced
\* close_document: no document holds its path any more
C16_Witness ==
    /\ last.op = "close_document" /\ last.ret = "ok" /\ last.id = DocumentIdDefault
    /\ DocumentIdDefault \notin Keys
    /\ \A path \in Paths : document_by_path(self, path) = NoDoc

\* C17: when launch_language_server binds the document to another server than
\* the one it was bound to, it has dispatched a did_close to the old server if
\* there was one, then exactly one did_open to the new server, which is the
\* server of the document's language; when the binding stays (no server found,
\* or the same server) nothing is dispatched; a server that the registry had
\* to start is always bound.
C17_RebindClosesThenOpens ==
    [][last'.op \in {"refresh_language_server", "panic"} =>
        \A d \in Keys :
            (RefreshLanguageServer(MaxMintedLsp, d) /\ ~panicked') =>
                LET old == documents[d].language_server
                    new == documents'[d].language_server
                    url == documents[d].path
                IN /\ new # old =>
                        /\ new # NoServer
                        /\ documents'[d].language \in DOMAIN language_servers'
                        /\ new = language_servers'[documents'[d].language]
                        /\ spawned' = spawned
                                \o (IF old # NoServer THEN <<DidClose(old, url)>> ELSE <<>>)
                                \o <<DidOpen(new, url)>>
                   /\ new = old =>
                        (spawned' = spawned /\ language_servers' = language_servers)
                   /\ language_servers' # language_servers => new # old]_vars

\* a document has moved from the server of one language to the server of
\* another: the did_close to the first and the did_open to the second are in
\* flight, in that order
C17_Witness ==
    /\ last.op = "refresh_language_server"
    /\ Len(spawned) = 2
    /\ spawned[1].kind = "did_close" /\ spawned[2].kind = "did_open"
    /\ spawned[1].server # spawned[2].server
    /\ \E d \in Keys :
          /\ documents[d].language_server = spawned[2].server
          /\ documents[d].path = spawned[2].url
          /\ spawned[1].url = spawned[2].url

C19_LoadOnlySeeds ==
    [][(last'.op = "switch" /\ last'.action = "Load" /\ last'.ret = "ok") =>
        \A id \in Keys :
            Switch(MaxMintedScroll, id, "Load") =>
                /\ tree' = tree
                /\ DOMAIN documents' = Keys
                /\ UNCHANGED <<next_document_id, language_servers, spawned>>
                /\ IF DOMAIN documents[id].selections = {}
                   THEN documents' =
                            [documents EXCEPT ![id].selections = (tree.focus :> 0)]
                   ELSE documents' = documents]_vars

\* the first document lost its only entry when its view was closed; a Load
\* from the second view, which never displayed it, has seeded an entry for
\* that view in it, and the view still displays the second document
C19_Witness ==
    /\ last.op = "switch" /\ last.action = "Load" /\ last.ret = "ok"
    /\ Views = {2} /\ tree.focus = 2 /\ Keys = {1, 2}
    /\ documents[1].selections = (2 :> 0)
    /\ tree.views[2].doc = 2
    /\ tree.views[2].jumps = <<>> /\ tree.views[2].last_accessed_doc = NoDoc

\* C20: switch(id, HorizontalSplit | VerticalSplit) on an id of the registry
\* adds exactly one view to the tree, focused and bound to id, and stores the
\* point selection at 0 under that view's id in document id; every other view
\* keeps its doc, and the documents are as they were but for that one entry:
\* none is added or removed and no other selection changes.
C20_SplitAddsOneView ==
    [][(last'.op = "switch" /\ last'.action \in Splits /\ last'.ret = "ok") =>
        \A id \in Keys, action \in Splits :
            Switch(MaxMintedScroll, id, action) =>
                LET added == (DOMAIN tree'.views) \ Views IN
                /\ Views \subseteq DOMAIN tree'.views
                /\ Cardinality(added) = 1
                /\ \A view_id \in added :
                      /\ tree'.focus = view_id
                      /\ tree'.views[view_id].doc = id
                      /\ view_id \notin DOMAIN documents[id].selections
                      /\ documents' =
                            [documents EXCEPT ![id].selections = Put(@, view_id, 0)]
                /\ \A v \in Views : tree'.views[v].doc = tree.views[v].doc
                /\ next_document_id' = next_document_id]_vars

\* a split of a view whose cursor an edit had moved: the new view displays the
\* same document with its own point selection at 0, the old view keeps its
\* selection
C20_Witness ==
    /\ last.op = "switch" /\ last.action \in Splits /\ last.ret = "ok"
    /\ tree.focus \in Views
    /\ LET d == tree.views[tree.focus].doc IN
       /\ documents[d].selections[tree.focus] = 0
       /\ \E v \in Displaying(d) \ {tree.focus} :
             /\ v < tree.focus
             /\ documents[d].selections[v] \in ScrollPositions
       /\ tree.focus = tree.next_key - 1

\* the tasks in flight before a step are still in flight after it, in order
\* and ahead of the tasks the step has spawned
StillInFlight ==
    /\ Len(spawned) <= Len(spawned')
    /\ SubSeq(spawned', 1, Len(spawned)) = spawned

\* C21: no call of the editor waits for a notification task: when open,
\* refresh_language_server (launch_language_server) or close_document returns,
\* every task that was in flight before the call is still in flight, and so
\* are the tasks the call has spawned; a task ends only in a step of the
\* runtime. The interleaving the claim names is the witness.
C21_CallsNeverAwaitTasks ==
    [][/\ (last'.op # "task" /\ ~panicked') => StillInFlight
       /\ (Len(spawned') < Len(spawned) /\ ~panicked') => last'.op = "task"]_vars

\* the document of the file is gone from the registry and its did_close has
\* been dispatched while the did_open dispatched for it before is still in
\* flight
C21_Witness ==
    /\ last.op = "close_document" /\ last.ret = "ok" /\ last.id \notin Keys
    /\ Len(spawned) = 2
    /\ spawned[1].kind = "did_open" /\ spawned[2].kind = "did_close"
    /\ spawned[1].url = spawned[2].url /\ spawned[1].server = spawned[2].server
    /\ document_by_path(self, spawned[1].url) = NoDoc

\* C22: in every reachable state each view of the tree finds, in the document
\* it displays, a selection under its own id; and no step takes away, from
\* any document that stays in the registry, the entry of a view that stays in
\* the tree.
C22_ViewsKeepTheirSelection ==
    /\ [](\A v \in Views :
            /\ tree.views[v].doc \in Keys
            /\ v \in DOMAIN documents[tree.views[v].doc].selections)
    /\ [][\A v \in Views \cap DOMAIN tree'.views, d \in Keys \cap DOMAIN documents' :
            v \in DOMAIN documents[d].selections
                => v \in DOMAIN documents'[d].selections]_vars

\* an unfocused view has been closed, which left its entry behind in the
\* document it displayed; the views that remain have theirs
C22_Witness ==
    /\ last.op = "close"
    /\ Views # {}
    /\ \A v \in Views : v \in DOMAIN documents[tree.views[v].doc].selections
    /\ \E d \in Keys : \E k \in DOMAIN documents[d].selections :
          k \notin Views /\ Displaying(d) = {}
====
